---- MODULE Spec2Model ----
(***************************************************************************)
(* Model of examples/mainSift.cpp of CudaSift:                             *)
(*   - the multithreaded benchmark sweep of main (lines 152-192),          *)
(*   - MatchAll (lines 195-248),                                           *)
(*   - PrintMatchData (lines 250-300).                                     *)
(* Each of the three is a specification of its own over the same           *)
(* variables; the variables of the other two stay at their idle values.    *)
(***************************************************************************)
EXTENDS Integers, Sequences, FiniteSets, TLC

VARIABLES
  \* ---- main, multithreaded benchmark (lines 152-192)
  pc,          \* position of the main thread
  i,           \* worker count / pool size of the current round (line 152)
  j,           \* index of the create / synchronize / destroy loops
  streams,     \* std::vector<cudaStream_t> streams: handles of the round
  status,      \* per stream handle ever created: "live" or "destroyed"
  pending,     \* per stream handle: device operations enqueued, not completed
  synced,      \* per stream handle: synchronized since its last enqueue
  destroys,    \* per stream handle: number of cudaStreamDestroy calls on it
  misuse,      \* an enqueue / synchronize / destroy hit a destroyed stream
  ctr,         \* std::atomic<int> ctr (line 170)
  todo,        \* iterations of the parallel_for not yet started
  wpc,         \* per worker thread: position inside the lambda
  tid,         \* per worker thread: the lambda's local tid
  assigned,    \* the values of tid in the order the counter was drawn
  printed,     \* throughput lines written to std::cout
  \* ---- MatchAll (lines 195-248)
  mpc,         \* position inside MatchAll
  h_arg,       \* the homography as the caller passed it
  homography,  \* float *homography, the caller's array
  setA,        \* siftData1: points with xpos, ypos, match, data
  setB,        \* siftData2
  mi,          \* MatchAll's i
  mj,          \* MatchAll's j
  found,       \* bool found
  numFound,    \* int numFound
  divByZero,   \* a division by den = 0 has been executed
  output,      \* the lines written by line 237 and line 244
  \* ---- PrintMatchData (lines 250-300), the loop body for one point
  ppc,         \* position inside PrintMatchData
  w,           \* img.width
  h,           \* img.height
  pt,          \* sift1[j] with the position of sift2[sift1[j].match]
  l,           \* index of the line loop (line 281)
  k,           \* index of the marker loops (lines 293, 296)
  pass,        \* which of the two marker loops is running
  h_img,       \* img.h_data, row-major, w*h values
  writes,      \* the stores of the last step: column, row, offset
  oob,         \* a store outside h_img[0 .. w*h-1] has been executed
  darkSet,     \* offsets stored by the 0.0f marker loop
  lightSet     \* offsets stored by the 255.0f marker loop

benchVars == <<pc, i, j, streams, status, pending, synced, destroys, misuse,
               ctr, todo, wpc, tid, assigned, printed>>
matchVars == <<mpc, h_arg, homography, setA, setB, mi, mj, found, numFound,
               divByZero, output>>
printVars == <<ppc, w, h, pt, l, k, pass, h_img, writes, oob, darkSet,
               lightSet>>
vars == <<benchVars, matchVars, printVars>>

\* The sweep runs i = 1..16 (line 152); the model runs i = 1..MaxThreads.
MaxThreads == 3
\* constexpr int iterations = 1000 (line 172); the model runs MaxIterations.
MaxIterations == 5

iterations == MaxIterations

Min(a, b) == IF a < b THEN a ELSE b
Abs(a) == IF a < 0 THEN -a ELSE a
\* C++ integer conversion and division truncate toward zero.
TruncDiv(a, b) ==
  IF (a >= 0) = (b > 0) THEN Abs(a) \div Abs(b) ELSE -(Abs(a) \div Abs(b))

(***************************************************************************)
(* main: the multithreaded benchmark                                       *)
(***************************************************************************)
Workers == 1..i

\* main is not running (the specifications of MatchAll and PrintMatchData)
BenchIdle ==
  /\ pc = "off" /\ i = 0 /\ j = 0 /\ streams = <<>> /\ status = <<>>
  /\ pending = <<>> /\ synced = <<>> /\ destroys = <<>> /\ misuse = FALSE
  /\ ctr = 0 /\ todo = 0 /\ wpc = <<>> /\ tid = <<>> /\ assigned = <<>>
  /\ printed = <<>>

BenchInit ==
  /\ pc = "create" /\ i = 1 /\ j = 0 /\ streams = <<>> /\ status = <<>>
  /\ pending = <<>> /\ synced = <<>> /\ destroys = <<>> /\ misuse = FALSE
  /\ ctr = 0 /\ todo = 0
  /\ wpc = [t \in 1..1 |-> "idle"] /\ tid = [t \in 1..1 |-> 0]
  /\ assigned = <<>> /\ printed = <<>>

\* for (int j = 0; j < i; ++j)  -- lines 157, 181, 189
CreateLoopCond(jj, n) == jj < n
SyncLoopCondShort(jj, n) == jj < n - 1
SyncLoopCond(jj, n) == jj < n
DestroyLoopCondShort(jj, n) == jj < n - 1
DestroyLoopCond(jj, n) == jj < n

\* int tid = ctr++ % i;  the value of tid for the counter value c
SlotOfPreIncrement(c, n) == (c + 1) % n
SlotOf(c, n) == c % n

\* the counter after ctr++ on an atomic: one fetch-and-add
CtrAfterLostUpdate(c) == IF c % 2 = 1 THEN c ELSE c + 1
CtrAfter(c) == c + 1

\* streams[jj] of the C++ vector (0-based)
StreamAt(jj) == streams[jj + 1]

\* An asynchronous operation is put on the stream with handle hd.
Enqueue(hd) ==
  /\ pending' = [pending EXCEPT ![hd] = @ + 1]
  /\ synced' = [synced EXCEPT ![hd] = FALSE]
  /\ misuse' = (misuse \/ status[hd] # "live")

\* work units that have started and returned
CompletedUnits ==
  Len(assigned) - Cardinality({t \in Workers : wpc[t] # "idle"})

\* lines 157-167: one slot of the round is created
CreateSlot ==
  /\ pc = "create" /\ CreateLoopCond(j, i)
  /\ streams' = Append(streams, Len(status) + 1)
  /\ status' = Append(status, "live")
  /\ pending' = Append(pending, 0)
  /\ synced' = Append(synced, TRUE)
  /\ destroys' = Append(destroys, 0)
  /\ j' = j + 1
  /\ UNCHANGED <<matchVars, printVars>>
  /\ UNCHANGED <<pc, i, misuse, ctr, todo, wpc, tid, assigned, printed>>

\* lines 169-175: scheduler{i}, ctr{0}, bench_start, parallel_for begins
StartBench ==
  /\ pc = "create" /\ ~CreateLoopCond(j, i)
  /\ ctr' = 0 /\ todo' = iterations /\ assigned' = <<>>
  /\ wpc' = [t \in Workers |-> "idle"]
  /\ tid' = [t \in Workers |-> 0]
  /\ pc' = "parallel"
  /\ UNCHANGED <<matchVars, printVars>>
  /\ UNCHANGED <<i, j, streams, status, pending, synced, destroys, misuse,
                 printed>>

\* line 176: a worker starts a work unit and draws its slot
Draw(t) ==
  /\ pc = "parallel" /\ wpc[t] = "idle" /\ todo > 0
  /\ todo' = todo - 1
  /\ tid' = [tid EXCEPT ![t] = SlotOf(ctr, i)]
  /\ assigned' = Append(assigned, SlotOf(ctr, i))
  /\ ctr' = CtrAfter(ctr)
  /\ wpc' = [wpc EXCEPT ![t] = "drawn"]
  /\ UNCHANGED <<matchVars, printVars>>
  /\ UNCHANGED <<pc, i, j, streams, status, pending, synced, destroys,
                 misuse, printed>>

\* line 177: imgs[tid].Download() on the slot's stream
Download(t) ==
  /\ pc = "parallel" /\ wpc[t] = "drawn"
  /\ Enqueue(StreamAt(tid[t]))
  /\ wpc' = [wpc EXCEPT ![t] = "downloaded"]
  /\ UNCHANGED <<matchVars, printVars>>
  /\ UNCHANGED <<pc, i, j, streams, status, destroys, ctr, todo, tid,
                 assigned, printed>>

\* lines 178-179: ExtractSift(..., streams[tid]) is enqueued and returns
Extract(t) ==
  /\ pc = "parallel" /\ wpc[t] = "downloaded"
  /\ Enqueue(StreamAt(tid[t]))
  /\ wpc' = [wpc EXCEPT ![t] = "idle"]
  /\ UNCHANGED <<matchVars, printVars>>
  /\ UNCHANGED <<pc, i, j, streams, status, destroys, ctr, todo, tid,
                 assigned, printed>>

\* the device completes the oldest operation of a stream
DeviceStep(hd) ==
  /\ pending[hd] > 0
  /\ pending' = [pending EXCEPT ![hd] = @ - 1]
  /\ UNCHANGED <<matchVars, printVars>>
  /\ UNCHANGED <<pc, i, j, streams, status, synced, destroys, misuse, ctr,
                 todo, wpc, tid, assigned, printed>>

\* line 180: parallel_for returns when every iteration has run
ParallelForJoin ==
  /\ pc = "parallel" /\ todo = 0 /\ \A t \in Workers : wpc[t] = "idle"
  /\ pc' = "sync" /\ j' = 0
  /\ UNCHANGED <<matchVars, printVars>>
  /\ UNCHANGED <<i, streams, status, pending, synced, destroys, misuse, ctr,
                 todo, wpc, tid, assigned, printed>>

\* lines 181-183: cudaStreamSynchronize(streams[j]) blocks until it is empty
Synchronize ==
  /\ pc = "sync" /\ SyncLoopCond(j, i)
  /\ pending[StreamAt(j)] = 0
  /\ synced' = [synced EXCEPT ![StreamAt(j)] = TRUE]
  /\ misuse' = (misuse \/ status[StreamAt(j)] # "live")
  /\ j' = j + 1
  /\ UNCHANGED <<matchVars, printVars>>
  /\ UNCHANGED <<pc, i, streams, status, pending, destroys, ctr, todo, wpc,
                 tid, assigned, printed>>

\* line 184: bench_end is taken
TakeEnd ==
  /\ pc = "sync" /\ ~SyncLoopCond(j, i)
  /\ pc' = "print"
  /\ UNCHANGED <<matchVars, printVars>>
  /\ UNCHANGED <<i, j, streams, status, pending, synced, destroys, misuse,
                 ctr, todo, wpc, tid, assigned, printed>>

\* lines 185-188: the throughput line of the round
PrintLine ==
  /\ pc = "print"
  /\ printed' = Append(printed, [threads |-> i, units |-> CompletedUnits])
  /\ pc' = "destroy" /\ j' = 0
  /\ UNCHANGED <<matchVars, printVars>>
  /\ UNCHANGED <<i, streams, status, pending, synced, destroys, misuse, ctr,
                 todo, wpc, tid, assigned>>

\* lines 189-191: cudaStreamDestroy(streams[j])
Destroy ==
  /\ pc = "destroy" /\ DestroyLoopCond(j, i)
  /\ misuse' = (misuse \/ status[StreamAt(j)] # "live")
  /\ status' = [status EXCEPT ![StreamAt(j)] = "destroyed"]
  /\ destroys' = [destroys EXCEPT ![StreamAt(j)] = @ + 1]
  /\ j' = j + 1
  /\ UNCHANGED <<matchVars, printVars>>
  /\ UNCHANGED <<pc, i, streams, pending, synced, ctr, todo, wpc, tid,
                 assigned, printed>>

\* lines 152, 192: the round's vectors go out of scope, ++i
NextRound ==
  /\ pc = "destroy" /\ ~DestroyLoopCond(j, i)
  /\ IF i + 1 <= MaxThreads
       THEN /\ i' = i + 1 /\ pc' = "create"
            /\ wpc' = [t \in 1..(i + 1) |-> "idle"]
            /\ tid' = [t \in 1..(i + 1) |-> 0]
       ELSE /\ i' = i /\ pc' = "finished" /\ UNCHANGED <<wpc, tid>>
  /\ j' = 0 /\ streams' = <<>>
  /\ UNCHANGED <<matchVars, printVars>>
  /\ UNCHANGED <<status, pending, synced, destroys, misuse, ctr, todo,
                 assigned, printed>>

BenchNext ==
  \/ CreateSlot
  \/ StartBench
  \/ \E t \in Workers : Draw(t)
  \/ \E t \in Workers : Download(t)
  \/ \E t \in Workers : Extract(t)
  \/ \E hd \in 1..Len(pending) : DeviceStep(hd)
  \/ ParallelForJoin
  \/ Synchronize
  \/ TakeEnd
  \/ PrintLine
  \/ Destroy
  \/ NextRound

(***************************************************************************)
(* Properties of the benchmark sweep                                       *)
(***************************************************************************)
SlotCount(s) == Cardinality({n \in 1..Len(assigned) : assigned[n] = s})
CeilDiv(a, b) == (a + b - 1) \div b
InRound == pc \in {"parallel", "sync", "print", "destroy"}
RoundComplete == pc \in {"sync", "print", "destroy"}

\* C1: in a round with w = i workers every drawn slot index is in 0..w-1,
\* and once the round is complete every slot has been selected
\* floor(iterations/w) or ceil(iterations/w) times.
C1_RoundRobinFair ==
  /\ InRound =>
       /\ \A n \in 1..Len(assigned) : assigned[n] \in 0..(i - 1)
       /\ \A t \in Workers : tid[t] \in 0..(i - 1)
  /\ RoundComplete =>
       /\ Len(assigned) = iterations
       /\ \A s \in 0..(i - 1) :
            SlotCount(s) \in {iterations \div i, CeilDiv(iterations, i)}

C1_Witness ==
  /\ pc = "sync" /\ i >= 2
  /\ \E s1, s2 \in 0..(i - 1) : SlotCount(s1) # SlotCount(s2)

\* C2: no two work units running at the same time on different worker
\* threads hold the same slot index.
C2_NoSlotSharing ==
  \A t1, t2 \in Workers :
    (t1 # t2 /\ wpc[t1] # "idle" /\ wpc[t2] # "idle") => tid[t1] # tid[t2]

\* C3: when the end timestamp has been taken, all work units of the round
\* have completed and every stream of the round is synchronized and empty;
\* every throughput line printed reports a complete batch.
C3_CompleteBatch ==
  /\ pc = "print" =>
       /\ todo = 0 /\ CompletedUnits = iterations
       /\ \A jj \in 0..(i - 1) :
            pending[StreamAt(jj)] = 0 /\ synced[StreamAt(jj)]
  /\ \A n \in 1..Len(printed) : printed[n].units = iterations

C3_Witness ==
  /\ pc = "destroy" /\ i >= 2 /\ Len(printed) = i
  /\ printed[i].threads = i

\* C4: the k-th work unit to draw the counter (k = 0, 1, 2, ...) gets slot
\* k mod poolSize, under every interleaving of the workers.
C4_CyclicOrder ==
  InRound => \A n \in 1..Len(assigned) : assigned[n] = (n - 1) % i

C4_Witness ==
  /\ pc = "sync" /\ i >= 2 /\ Len(assigned) > i
  /\ assigned[i + 1] = 0 /\ assigned[i] = i - 1

\* C10: every stream is destroyed exactly once, only when synchronized and
\* empty with no work unit running on it, and before the next round creates
\* its streams; nothing is enqueued on, synchronized on or destroyed twice
\* for a destroyed stream; during round i exactly i streams are live.
LiveStreams == {hd \in 1..Len(status) : status[hd] = "live"}
RoundStreams == {streams[n] : n \in 1..Len(streams)}

C10_StreamLifecycle ==
  /\ ~misuse
  /\ \A hd \in 1..Len(status) :
       /\ destroys[hd] = (IF status[hd] = "destroyed" THEN 1 ELSE 0)
       /\ status[hd] = "destroyed" => (pending[hd] = 0 /\ synced[hd])
  /\ \A t \in Workers :
       wpc[t] # "idle" => status[StreamAt(tid[t])] = "live"
  /\ pc = "create" => LiveStreams = RoundStreams
  /\ pc = "finished" => LiveStreams = {}
  /\ pc \in {"parallel", "sync", "print"} =>
       (Len(streams) = i /\ LiveStreams = RoundStreams
          /\ Cardinality(LiveStreams) = i)

C10_Witness ==
  /\ pc = "finished" /\ Len(status) > i
  /\ \A hd \in 1..Len(status) : destroys[hd] = 1

(***************************************************************************)
(* MatchAll (lines 195-248)                                                *)
(***************************************************************************)
\* points per feature set in the model
MaxPts == 2
\* the descriptor has 128 components (line 220); the model keeps DescLen
DescLen == 2

Identity == <<1, 0, 0, 0, 1, 0, 0, 0, 1>>
HomographiesIn ==
  { Identity,
    <<1, 0, 0, 0, 1, 0, 0, 0, 0>>,
    <<1, 0, 0, 0, 1, 0, 0, 0, 2>>,
    <<-1, 0, 1279, 0, -1, 959, 0, 0, 1>> }

DescFirst == [n \in 1..DescLen |-> IF n = 1 THEN 1 ELSE 0]
DescLast == [n \in 1..DescLen |-> IF n = DescLen THEN 1 ELSE 0]

PointsA ==
  [xpos : {10}, ypos : {10}, match : {-1, 0, 1}, data : {DescFirst}]
    \cup [xpos : {50}, ypos : {50}, match : {-1, 0, 1}, data : {DescFirst}]
    \cup [xpos : {1264}, ypos : {944}, match : {-1, 0, 1}, data : {DescLast}]
PointsB ==
  [xpos : {15}, ypos : {15}, match : {-1}, data : {DescFirst, DescLast}]
    \cup [xpos : {55}, ypos : {55}, match : {-1}, data : {DescFirst}]

SeqsUpTo(S, n) == UNION {[1..m -> S] : m \in 0..n}

MatchIdle ==
  /\ mpc = "off" /\ h_arg = <<>> /\ homography = <<>> /\ setA = <<>>
  /\ setB = <<>> /\ mi = 0 /\ mj = 0 /\ found = FALSE /\ numFound = 0
  /\ divByZero = FALSE /\ output = <<>>

MatchInit ==
  /\ mpc = "entry"
  /\ h_arg \in HomographiesIn /\ homography = h_arg
  /\ setA \in SeqsUpTo(PointsA, MaxPts)
  /\ setB \in SeqsUpTo(PointsB, MaxPts)
  /\ mi = 0 /\ mj = 0 /\ found = FALSE /\ numFound = 0
  /\ divByZero = FALSE /\ output = <<>>

numPts1 == Len(setA)
numPts2 == Len(setB)

\* homography[n] of the C array (0-based)
H(n) == homography[n + 1]

\* lines 219-221: the dot product of two descriptors
RECURSIVE DotUpTo(_, _, _)
DotUpTo(d1, d2, n) ==
  IF n = 0 THEN 0 ELSE DotUpTo(d1, d2, n - 1) + d1[n] * d2[n]
Dot(d1, d2) == DotUpTo(d1, d2, DescLen)

\* line 222
Den(a) == H(6) * a.xpos + H(7) * a.ypos + H(8)
\* lines 223, 224: the numerators of the projection
NumX(a) == H(0) * a.xpos + H(1) * a.ypos + H(2)
NumY(a) == H(3) * a.xpos + H(4) * a.ypos + H(5)
\* line 225 for den # 0: err = ErrNum / den^2
ErrNum(a, b) ==
  (NumX(a) - b.xpos * Den(a)) * (NumX(a) - b.xpos * Den(a))
    + (NumY(a) - b.ypos * Den(a)) * (NumY(a) - b.ypos * Den(a))
\* err < 100.0f; with den = 0 err is infinite or NaN and the test is false
ErrBelow(a, b) ==
  Den(a) # 0 /\ ErrNum(a, b) < 100 * Den(a) * Den(a)

\* lines 204-212: the entry of MatchAll, with the #if 1 block
MatchAllEnter ==
  /\ mpc = "entry"
  /\ homography' = <<-1, 0, 1279, 0, -1, 959, 0, 0, homography[9]>>
  /\ numFound' = 0 /\ mi' = 0
  /\ mpc' = "outer"
  /\ UNCHANGED <<benchVars, printVars>>
  /\ UNCHANGED <<h_arg, setA, setB, mj, found, divByZero, output>>

\* lines 213-217: one point of siftData1 is taken up
OuterBegin ==
  /\ mpc = "outer" /\ mi < numPts1
  /\ found' = FALSE /\ mj' = 0
  /\ mpc' = "inner"
  /\ UNCHANGED <<benchVars, printVars>>
  /\ UNCHANGED <<h_arg, homography, setA, setB, mi, numFound, divByZero,
                 output>>

\* lines 217-239: one pass of the inner loop
InnerStep ==
  /\ mpc = "inner" /\ mj < numPts2
  /\ LET a == setA[mi + 1]
         b == setB[mj + 1]
         below == ErrBelow(a, b)
         mark == IF mj = a.match /\ below THEN "*"
                 ELSE IF mj = a.match THEN "-"
                 ELSE IF below THEN "+" ELSE " "
         line == [i |-> mi, j |-> mj, mark |-> mark,
                  sum |-> Dot(a.data, b.data),
                  err |-> IF Den(a) = 0 THEN <<"undefined">>
                          ELSE <<ErrNum(a, b), Den(a) * Den(a)>>]
     IN /\ divByZero' = (divByZero \/ Den(a) = 0)
        /\ found' = (found \/ below)
        /\ output' = IF below \/ mj = a.match
                       THEN Append(output, line) ELSE output
  /\ mj' = mj + 1
  /\ UNCHANGED <<benchVars, printVars>>
  /\ UNCHANGED <<mpc, h_arg, homography, setA, setB, mi, numFound>>

\* lines 240-243: the inner loop is over
InnerEnd ==
  /\ mpc = "inner" /\ ~(mj < numPts2)
  /\ numFound' = IF found THEN numFound + 1 ELSE numFound
  /\ mi' = mi + 1
  /\ mpc' = "outer"
  /\ UNCHANGED <<benchVars, printVars>>
  /\ UNCHANGED <<h_arg, homography, setA, setB, mj, found, divByZero,
                 output>>

\* lines 244-247: the summary
MatchAllFinish ==
  /\ mpc = "outer" /\ ~(mi < numPts1)
  /\ output' = Append(output, [finds |-> numFound, of |-> numPts1])
  /\ mpc' = "done"
  /\ UNCHANGED <<benchVars, printVars>>
  /\ UNCHANGED <<h_arg, homography, setA, setB, mi, mj, found, numFound,
                 divByZero>>

MatchNext ==
  \/ MatchAllEnter
  \/ OuterBegin
  \/ InnerStep
  \/ InnerEnd
  \/ MatchAllFinish

\* C7: a point whose denominator is zero is guarded before the division,
\* and no undefined value derived from it reaches the output.
C7_DegenerateGuarded ==
  /\ ~divByZero
  /\ \A n \in 1..Len(output) :
       "err" \in DOMAIN output[n] => output[n].err # <<"undefined">>

\* C8: called with the identity homography, MatchAll counts a point exactly
\* when its matched candidate lies at squared distance below 100 from it.
Dist2(a, b) ==
  (a.xpos - b.xpos) * (a.xpos - b.xpos)
    + (a.ypos - b.ypos) * (a.ypos - b.ypos)
ConfirmedByMatch ==
  {n \in 1..Len(setA) :
     /\ setA[n].match \in 0..(Len(setB) - 1)
     /\ Dist2(setA[n], setB[setA[n].match + 1]) < 100}
C8_IdentityConfirms ==
  (mpc = "done" /\ h_arg = Identity) =>
     numFound = Cardinality(ConfirmedByMatch)

(***************************************************************************)
(* PrintMatchData (lines 250-300): the body of the loop for one point.     *)
(* Positions are kept in halves of a pixel: xs = 2 * xpos.                 *)
(***************************************************************************)
\* the buffer is MaxDim-1 or MaxDim pixels wide and high
MaxDim == 6
\* sift1[j].scale is 0..MaxScale
MaxScale == 2

Dims == (MaxDim - 1)..MaxDim
\* 2*xpos, 2*ypos of sift1[j]: from 1.5 pixels outside the buffer on
HalfCoords(n) == (-3)..(2 * n + 1)
\* 2*xpos, 2*ypos of the matched point sift2[k]
TargetCoords(n) == {-6, 3, 2 * n + 4}

PrintIdle ==
  /\ ppc = "off" /\ w = 0 /\ h = 0 /\ pt = <<>> /\ l = 0 /\ k = 0
  /\ pass = 0 /\ h_img = <<>> /\ writes = {} /\ oob = FALSE
  /\ darkSet = {} /\ lightSet = {}

\* the image holds some luminance (128 here) in every pixel
PrintInit ==
  /\ ppc = "line"
  /\ w \in Dims /\ h \in Dims
  /\ pt \in [xs : HalfCoords(w), ys : HalfCoords(h), scale : 0..MaxScale,
             match_error : {1, 5},
             txs : TargetCoords(w) \cup {0}, tys : TargetCoords(h) \cup {0}]
  /\ (pt.match_error < 5) = (pt.txs # 0 /\ pt.tys # 0)
  /\ (pt.match_error >= 5) = (pt.txs = 0 /\ pt.tys = 0)
  /\ l = 0 /\ k = 0 /\ pass = 1
  /\ h_img = [n \in 1..(w * h) |-> 128]
  /\ writes = {} /\ oob = FALSE /\ darkSet = {} /\ lightSet = {}

\* lines 267, 268, doubled: 2*dx, 2*dy
Dxs == pt.txs - pt.xs
Dys == pt.tys - pt.ys
\* line 280: len = (int)(fabs(dx) > fabs(dy) ? fabs(dx) : fabs(dy))
LineLen == TruncDiv(IF Abs(Dxs) > Abs(Dys) THEN Abs(Dxs) ELSE Abs(Dys), 2)
\* lines 282, 283: (int)(xpos + dx*l/len), (int)(ypos + dy*l/len)
LineX(ll) == TruncDiv(pt.xs * LineLen + Dxs * ll, 2 * LineLen)
LineY(ll) == TruncDiv(pt.ys * LineLen + Dys * ll, 2 * LineLen)

\* lines 288, 289: (int)(xpos + 0.5), (int)(ypos + 0.5)
MarkerX == TruncDiv(pt.xs + 1, 2)
MarkerY == TruncDiv(pt.ys + 1, 2)
\* line 290
MarkerRadiusNoMargin(x, y, ww, hh, scale) ==
  Min(x, Min(y, Min(ww - x, Min(hh - y, TruncDiv(141 * scale, 100)))))
MarkerRadius(x, y, ww, hh, scale) ==
  Min(x, Min(y, Min(ww - x - 2, Min(hh - y - 2, TruncDiv(141 * scale, 100)))))
S == MarkerRadius(MarkerX, MarkerY, w, h, pt.scale)
\* line 291
P == MarkerY * w + MarkerX

\* lines 292-297: the two marker loops in the order they run
PassOrderLightFirst == <<"light", "dark">>
PassOrder == <<"dark", "light">>
\* the value a loop stores: 0.0f (line 294), 255.0f (line 297)
PassValue(ps) == IF ps = "dark" THEN 0 ELSE 255
\* the column and row of the centre: p += (w+1) (line 292), p (line 295)
PassCol(ps) == IF ps = "dark" THEN MarkerX + 1 ELSE MarkerX
PassRow(ps) == IF ps = "dark" THEN MarkerY + 1 ELSE MarkerY
PassCentre(ps) == IF ps = "dark" THEN P + (w + 1) ELSE P

InBuffer(off) == off >= 0 /\ off < w * h
\* h_img[off] = val for every store of the set ws (all with one value)
Store(img, ws, val) ==
  [n \in 1..(w * h) |->
     IF \E wr \in ws : wr.off = n - 1 THEN val ELSE img[n]]

\* lines 266, 281: match_error >= 5 or the line loop is over
LineEnd ==
  /\ ppc = "line" /\ (pt.match_error < 5 => ~(l < LineLen))
  /\ ppc' = "marker" /\ pass' = 1 /\ k' = 0
  /\ UNCHANGED <<benchVars, matchVars>>
  /\ UNCHANGED <<w, h, pt, l, h_img, writes, oob, darkSet, lightSet>>

\* lines 281-285: one pixel of the match line
LineStep ==
  /\ ppc = "line" /\ pt.match_error < 5 /\ l < LineLen
  /\ LET x == LineX(l)
         y == LineY(l)
         ws == {[phase |-> "line", x |-> x, y |-> y, off |-> y * w + x]}
     IN /\ writes' = ws
        /\ h_img' = Store(h_img, ws, 255)
        /\ oob' = (oob \/ ~InBuffer(y * w + x))
  /\ l' = l + 1
  /\ UNCHANGED <<benchVars, matchVars>>
  /\ UNCHANGED <<ppc, w, h, pt, k, pass, darkSet, lightSet>>

\* lines 293-294, 296-297: one round of a marker loop, four stores
MarkerStep ==
  /\ ppc = "marker" /\ k < S
  /\ LET ps == PassOrder[pass]
         c == PassCentre(ps)
         ws == {[phase |-> "marker", x |-> PassCol(ps) - k,
                 y |-> PassRow(ps), off |-> c - k],
                [phase |-> "marker", x |-> PassCol(ps) + k,
                 y |-> PassRow(ps), off |-> c + k],
                [phase |-> "marker", x |-> PassCol(ps),
                 y |-> PassRow(ps) - k, off |-> c - k * w],
                [phase |-> "marker", x |-> PassCol(ps),
                 y |-> PassRow(ps) + k, off |-> c + k * w]}
         offs == {wr.off : wr \in ws}
     IN /\ writes' = ws
        /\ h_img' = Store(h_img, ws, PassValue(ps))
        /\ oob' = (oob \/ \E wr \in ws : ~InBuffer(wr.off))
        /\ darkSet' = IF ps = "dark" THEN darkSet \cup offs ELSE darkSet
        /\ lightSet' = IF ps = "light" THEN lightSet \cup offs ELSE lightSet
  /\ k' = k + 1
  /\ UNCHANGED <<benchVars, matchVars>>
  /\ UNCHANGED <<ppc, w, h, pt, l, pass>>

\* lines 295, 298: a marker loop is over
MarkerPassEnd ==
  /\ ppc = "marker" /\ ~(k < S)
  /\ IF pass < Len(PassOrder)
       THEN pass' = pass + 1 /\ k' = 0 /\ ppc' = ppc
       ELSE pass' = pass /\ k' = k /\ ppc' = "done"
  /\ UNCHANGED <<benchVars, matchVars>>
  /\ UNCHANGED <<w, h, pt, l, h_img, writes, oob, darkSet, lightSet>>

PrintNext ==
  \/ LineStep
  \/ LineEnd
  \/ MarkerStep
  \/ MarkerPassEnd

WriteInBounds(wr) ==
  /\ wr.off >= 0 /\ wr.off < w * h
  /\ wr.x >= 0 /\ wr.x < w
  /\ wr.y >= 0 /\ wr.y < h
  /\ wr.off = wr.y * w + wr.x

\* C5: the marker radius s is at most min(x, y, width-x-2, height-y-2) and
\* every store of both marker loops lies in [0, width*height), in the row
\* and column of its arm.
C5_MarkerInBounds ==
  ppc \in {"marker", "done"} =>
    /\ S <= Min(MarkerX,
                Min(MarkerY, Min(w - MarkerX - 2, h - MarkerY - 2)))
    /\ \A wr \in writes : wr.phase = "marker" => WriteInBounds(wr)

C5_Witness ==
  /\ ppc = "marker" /\ S >= 2 /\ k = S
  /\ \E wr \in writes : wr.phase = "marker" /\ wr.x = w - 2
  /\ \E wr \in writes : wr.phase = "marker" /\ wr.y = h - 2

\* C6: every store of the match line has its column in [0, width), its row
\* in [0, height) and its offset in [0, width*height).
C6_LineInBounds ==
  /\ ~oob
  /\ \A wr \in writes : wr.phase = "line" => WriteInBounds(wr)

\* C9 as stated: a pixel covered by both marker loops ends with the value
\* of the zero-intensity loop.
BothPasses == {off \in darkSet \cap lightSet : InBuffer(off)}
C9_ZeroOnTop ==
  ppc = "done" => \A off \in BothPasses : h_img[off + 1] = 0

\* C9 as amended: the zero-intensity loop, centred one row and one column
\* further, runs first and the 255 loop centred at the point runs after it,
\* so a pixel covered by both ends with 255.
C9_LightOnTop ==
  /\ (ppc = "marker" /\ pass = 1) => lightSet = {}
  /\ (ppc = "marker" /\ pass = 2) =>
       \A off \in lightSet : InBuffer(off) => h_img[off + 1] = 255
  /\ ppc = "done" =>
       /\ \A off \in BothPasses : h_img[off + 1] = 255
       /\ \A off \in darkSet \ lightSet : InBuffer(off) => h_img[off + 1] = 0

C9_Witness ==
  /\ ppc = "done" /\ BothPasses # {}
  /\ darkSet \ lightSet # {}

Init == BenchInit /\ MatchIdle /\ PrintIdle
Next == BenchNext
Spec == Init /\ [][Next]_vars

InitMatch == BenchIdle /\ MatchInit /\ PrintIdle
NextMatch == MatchNext
SpecMatch == InitMatch /\ [][NextMatch]_vars
InitPrint == BenchIdle /\ MatchIdle /\ PrintInit
NextPrint == PrintNext
SpecPrint == InitPrint /\ [][NextPrint]_vars
====
